---- MODULE Spec2Model ----
(***************************************************************************)
(* A model of the span-aware grid container of src/src/lib.rs: Table<T>    *)
(* with its row-major cell storage, the placement operation set_cell, its  *)
(* growth code, the internal set/replace helpers, the bounds-tolerant      *)
(* lookup get_cell_value_mut, the transforms map and flat_map, the         *)
(* traversal values and the rendering format_html.                         *)
(*                                                                         *)
(* Rows and columns are 0-based as in the source; the storage Vec is a     *)
(* TLA+ sequence, so the cell of storage index i is cells[i + 1].          *)
(* All coordinates stay far below 2^32, so u32 arithmetic never wraps.     *)
(*                                                                         *)
(* A panic (an index outside the storage in set/replace, a failed          *)
(* assert_eq) is recorded in the field fault of the table, which keeps the *)
(* cells written up to then; no call is made on a table that has unwound.  *)
(* The stored values are generic, so each set_cell call stores a fresh     *)
(* one: the number of the call.                                            *)
(***************************************************************************)
EXTENDS Integers, Sequences, FiniteSets, TLC

\* Bounds of the main specification: the grid never exceeds
\* MaxRows x MaxCols and at most MaxOps placements are made.
MaxRows == 2
MaxCols == 2
MaxOps == 3
\* Bounds of the wide specification (few calls, larger grid).
WideRows == 3
WideCols == 4
WideOps == 2
\* The largest span a call asks for.
MaxSpan == 2
\* Placements made in the specification of map, flat_map, values and
\* format_html.
ViewOps == 2

VARIABLES
    table,      \* the Table: num_cols, num_rows, cells (+ fault: a call unwound)
    pre,        \* the table as it was before the last call
    call,       \* the last call and its arguments
    result,     \* what the last call returned
    ops,        \* number of set_cell calls made so far
    degenerate, \* TRUE once some set_cell call had rowspan = 0 or colspan = 0
    ledger      \* the values passed to set_cell calls, by what became of them

vars == <<table, pre, call, result, ops, degenerate, ledger>>

Min(a, b) == IF a < b THEN a ELSE b
Max(a, b) == IF a > b THEN a ELSE b

----------------------------------------------------------------------------
\* enum Cell<T>
Empty == [kind |-> "Empty"]
Occupied(value, colspan, rowspan) ==
    [kind |-> "Occupied", value |-> value, colspan |-> colspan, rowspan |-> rowspan]
Shadowed(col, row) == [kind |-> "Shadowed", col |-> col, row |-> row]

\* The values a call returns.
OkNone == [kind |-> "OkNone"]
OkSome(value) == [kind |-> "OkSome", value |-> value]
ErrShadowed(col, row) == [kind |-> "Err", col |-> col, row |-> row]
PanicOutOfBounds == [kind |-> "PanicOutOfBounds"]
PanicAssert == [kind |-> "PanicAssert"]
SomeValue(value) == [kind |-> "Some", value |-> value]
None == [kind |-> "None"]
NoCall == [op |-> "none"]
NoResult == [kind |-> "none"]

\* std::iter::from_fn(|| Some(Cell::Empty)).take(n).collect()
EmptyCells(n) == [i \in 1..n |-> Empty]

\* Table::new()
New == [num_cols |-> 0, num_rows |-> 0, cells |-> <<>>, fault |-> FALSE]

\* Table::empty(rows, columns)
EmptyTable(rows, columns) ==
    [num_cols |-> columns, num_rows |-> rows,
     cells |-> EmptyCells(rows * columns), fault |-> FALSE]

\* Table::size()
size(t) == <<t.num_rows, t.num_cols>>

\* A slip in Table::cell_index: the row stride taken from num_rows.
cell_index_by_rows(t, row, col) == t.num_rows * row + col

\* Table::cell_index
cell_index(t, row, col) == t.num_cols * row + col

\* self.cells.get_mut(index).is_some()
InStorage(t, index) == index >= 0 /\ index < Len(t.cells)

\* Table::set: writes the cell of storage index cell_index(row, col), or
\* panics when the index is outside the storage. A table that has panicked
\* is not written any more (the call has unwound).
set(t, row, col, value) ==
    LET index == cell_index(t, row, col) IN
    IF t.fault THEN t
    ELSE IF InStorage(t, index)
         THEN [t EXCEPT !.cells[index + 1] = value]
         ELSE [t EXCEPT !.fault = TRUE]

\* A slip in replace: the cell after the indexed one is written.
replace_next(t, row, col, value) ==
    LET index == cell_index(t, row, col) + 1 IN
    IF t.fault THEN t
    ELSE IF InStorage(t, index)
         THEN [t EXCEPT !.cells[index + 1] = value]
         ELSE [t EXCEPT !.fault = TRUE]

\* Table::replace: as set; the cell that was there is read by the caller.
replace(t, row, col, value) == set(t, row, col, value)

\* The positions a for loop nest visits, in the order of the loops.
\* A slip in the column loop: it starts one row late.
ColumnRunSkipFirst(r0, r1, col) ==
    [i \in 1..Max(0, r1 - r0 - 1) |-> <<r0 + i, col>>]

\* for r in r0 .. r1 { (r, col) }
ColumnRun(r0, r1, col) ==
    [i \in 1..Max(0, r1 - r0) |-> <<r0 + i - 1, col>>]

\* A slip in the loop nest: row and column are passed to set in the wrong
\* order.
RectRunTransposed(c0, c1, r0, r1) ==
    LET h == Max(0, r1 - r0)
        w == Max(0, c1 - c0)
    IN [i \in 1..(w * h) |-> <<c0 + ((i - 1) \div h), r0 + ((i - 1) % h)>>]

\* for c in c0 .. c1 { for r in r0 .. r1 { (r, c) } }
RectRun(c0, c1, r0, r1) ==
    LET h == Max(0, r1 - r0)
        w == Max(0, c1 - c0)
    IN [i \in 1..(w * h) |-> <<r0 + ((i - 1) % h), c0 + ((i - 1) \div h)>>]

\* self.set(r, c, value) for every position of a run, in order.
RECURSIVE SetAll(_, _, _)
SetAll(t, run, value) ==
    IF run = <<>> THEN t
    ELSE SetAll(set(t, Head(run)[1], Head(run)[2], value), Tail(run), value)

\* cells.by_ref().take(n): the next n cells of the old storage (fewer when it
\* runs out) and what is left of it.
Take(s, n) == SubSeq(s, 1, Min(n, Len(s)))
Drop(s, n) == SubSeq(s, Min(n, Len(s)) + 1, Len(s))

\* The loop of the column growth: each of the num_rows old rows is copied
\* and padded with cols - num_cols Empty cells.
RECURSIVE RebuildRows(_, _, _, _)
RebuildRows(old, n, num_cols, cols) ==
    IF n = 0 THEN <<>>
    ELSE Take(old, num_cols) \o EmptyCells(cols - num_cols)
         \o RebuildRows(Drop(old, num_cols), n - 1, num_cols, cols)

\* A slip in the column growth: self.num_cols = cols is forgotten.
GrowColsKeepWidth(t, cols) ==
    IF cols > t.num_cols
    THEN LET cells == RebuildRows(t.cells, t.num_rows, t.num_cols, cols)
         IN [t EXCEPT !.cells = cells,
                      !.fault = (t.num_cols * t.num_rows # Len(cells))]
    ELSE t

\* if cols > self.num_cols { ... assert_eq!(...) }
GrowCols(t, cols) ==
    IF cols > t.num_cols
    THEN LET cells == RebuildRows(t.cells, t.num_rows, t.num_cols, cols)
         IN [t EXCEPT !.cells = cells, !.num_cols = cols,
                      !.fault = (cols * t.num_rows # Len(cells))]
    ELSE t

\* A slip in the row growth: rows * num_cols cells are appended, the rows
\* that exist are not subtracted.
GrowRowsNoSubtract(t, rows) ==
    IF ~t.fault /\ rows > t.num_rows
    THEN LET cells == t.cells \o EmptyCells(rows * t.num_cols)
         IN [t EXCEPT !.cells = cells, !.num_rows = rows,
                      !.fault = (t.num_cols * rows # Len(cells))]
    ELSE t

\* if rows > self.num_rows { ... assert_eq!(...) }
GrowRows(t, rows) ==
    IF ~t.fault /\ rows > t.num_rows
    THEN LET cells == t.cells \o EmptyCells((rows - t.num_rows) * t.num_cols)
         IN [t EXCEPT !.cells = cells, !.num_rows = rows,
                      !.fault = (t.num_cols * rows # Len(cells))]
    ELSE t

\* A slip in the clearing loops: the row range is inclusive (..=).
ClearRunInclusive(row, col, old_rowspan, old_colspan) ==
    ColumnRun(row + 1, row + old_rowspan + 1, col)
    \o RectRun(col + 1, col + old_colspan, row, row + old_rowspan + 1)

\* The positions cleared when an Occupied anchor is overwritten.
ClearRun(row, col, old_rowspan, old_colspan) ==
    ColumnRun(row + 1, row + old_rowspan, col)
    \o RectRun(col + 1, col + old_colspan, row, row + old_rowspan)

\* The positions set to Shadowed in the Occupied arm (the second loop nest
\* starts at col).
ShadowRunOccupied(row, col, rowspan, colspan) ==
    ColumnRun(row + 1, row + rowspan, col)
    \o RectRun(col, col + colspan, row, row + rowspan)

\* A slip in the Empty arm: the second loop nest starts at col, not col + 1.
ShadowRunEmptyFromCol(row, col, rowspan, colspan) ==
    ColumnRun(row + 1, row + rowspan, col)
    \o RectRun(col, col + colspan, row, row + rowspan)

\* The positions set to Shadowed in the Empty arm.
ShadowRunEmpty(row, col, rowspan, colspan) ==
    ColumnRun(row + 1, row + rowspan, col)
    \o RectRun(col + 1, col + colspan, row, row + rowspan)

\* Table::set_cell: the table after the call and the value returned.
set_cell(t, value, row, col, rowspan, colspan) ==
    LET cols == col + colspan
        rows == row + rowspan
        grown == GrowRows(GrowCols(t, cols), rows)
        index == cell_index(grown, row, col)
    IN
    IF grown.fault THEN [table |-> grown, result |-> PanicAssert]
    ELSE IF ~InStorage(grown, index)
    THEN [table |-> [grown EXCEPT !.fault = TRUE], result |-> PanicOutOfBounds]
    ELSE
    LET old_cell == grown.cells[index + 1]
        placed == replace(grown, row, col, Occupied(value, colspan, rowspan))
    IN
    CASE old_cell.kind = "Occupied" ->
            LET cleared == SetAll(placed,
                                  ClearRun(row, col, old_cell.rowspan, old_cell.colspan),
                                  Empty)
                shadowed == SetAll(cleared,
                                   ShadowRunOccupied(row, col, rowspan, colspan),
                                   Shadowed(col, row))
            IN [table |-> shadowed,
                result |-> IF shadowed.fault THEN PanicOutOfBounds
                           ELSE OkSome(old_cell.value)]
      [] old_cell.kind = "Empty" ->
            LET shadowed == SetAll(placed,
                                   ShadowRunEmpty(row, col, rowspan, colspan),
                                   Shadowed(col, row))
            IN [table |-> shadowed,
                result |-> IF shadowed.fault THEN PanicOutOfBounds
                           ELSE OkNone]
      [] old_cell.kind = "Shadowed" ->
            [table |-> placed, result |-> ErrShadowed(old_cell.col, old_cell.row)]

\* Table::get_cell_value_mut
get_cell_value_mut(t, row, col) ==
    LET idx == cell_index(t, row, col) IN
    IF InStorage(t, idx)
    THEN IF t.cells[idx + 1].kind = "Occupied"
         THEN SomeValue(t.cells[idx + 1].value)
         ELSE None
    ELSE None

\* slice::chunks_exact(0) panics ("chunk size must be non-zero").
PanicChunkSize == [kind |-> "PanicChunkSize"]

\* Table::cells_iter: chunks_exact(num_cols) panics at once when num_cols
\* is 0; otherwise it cuts the storage into the Len \div num_cols whole rows
\* and each cell comes with its row and column.
cells_iter(t) ==
    IF t.num_cols = 0 THEN PanicChunkSize
    ELSE [kind |-> "Items",
          items |-> [i \in 1..(t.num_cols * (Len(t.cells) \div t.num_cols)) |->
                        <<(i - 1) \div t.num_cols, (i - 1) % t.num_cols, t.cells[i]>>]]

\* A slip in map: colspan and rowspan change places.
map_cell_swapped(cell, f) ==
    CASE cell.kind = "Empty" -> Empty
      [] cell.kind = "Occupied" -> Occupied(f[cell.value], cell.rowspan, cell.colspan)
      [] cell.kind = "Shadowed" -> Shadowed(cell.col, cell.row)

\* The closure of map, applied to one cell.
map_cell(cell, f) ==
    CASE cell.kind = "Empty" -> Empty
      [] cell.kind = "Occupied" -> Occupied(f[cell.value], cell.colspan, cell.rowspan)
      [] cell.kind = "Shadowed" -> Shadowed(cell.col, cell.row)

\* Table::map
map(t, f) ==
    [kind |-> "Table",
     table |-> [num_cols |-> t.num_cols, num_rows |-> t.num_rows,
                cells |-> [i \in 1..Len(t.cells) |-> map_cell(t.cells[i], f)],
                fault |-> FALSE]]

\* The closure of flat_map over the items of cells_iter, in order; deleted
\* is the HashSet of (col, row) pairs it fills on the way.
RECURSIVE flat_map_cells(_, _, _)
flat_map_cells(items, f, deleted) ==
    IF items = <<>> THEN <<>>
    ELSE LET row == Head(items)[1]
             col == Head(items)[2]
             cell == Head(items)[3]
         IN
         CASE cell.kind = "Empty" ->
                <<Empty>> \o flat_map_cells(Tail(items), f, deleted)
           [] cell.kind = "Occupied" ->
                IF f[cell.value].kind = "Some"
                THEN <<Occupied(f[cell.value].value, cell.colspan, cell.rowspan)>>
                     \o flat_map_cells(Tail(items), f, deleted)
                ELSE <<Empty>>
                     \o flat_map_cells(Tail(items), f,
                                       IF cell.colspan # 1 /\ cell.rowspan # 1
                                       THEN deleted \cup {<<col, row>>}
                                       ELSE deleted)
           [] cell.kind = "Shadowed" ->
                (IF <<cell.col, cell.row>> \in deleted
                 THEN <<Empty>>
                 ELSE <<Shadowed(cell.col, cell.row)>>)
                \o flat_map_cells(Tail(items), f, deleted)

\* Table::flat_map
flat_map(t, f) ==
    LET iter == cells_iter(t) IN
    IF iter.kind = "PanicChunkSize" THEN iter
    ELSE [kind |-> "Table",
          table |-> [num_cols |-> t.num_cols, num_rows |-> t.num_rows,
                     cells |-> flat_map_cells(iter.items, f, {}),
                     fault |-> FALSE]]

\* CellValue
CellValue(value, row, col, rowspan, colspan) ==
    [value |-> value, row |-> row, col |-> col, rowspan |-> rowspan, colspan |-> colspan]

\* The closure of values over the items of cells_iter, in order.
RECURSIVE values_of(_)
values_of(items) ==
    IF items = <<>> THEN <<>>
    ELSE LET row == Head(items)[1]
             col == Head(items)[2]
             cell == Head(items)[3]
         IN (IF cell.kind = "Occupied"
             THEN <<CellValue(cell.value, row, col, cell.rowspan, cell.colspan)>>
             ELSE <<>>)
            \o values_of(Tail(items))

\* Table::values, collected.
values(t) ==
    LET iter == cells_iter(t) IN
    IF iter.kind = "PanicChunkSize" THEN iter
    ELSE [kind |-> "Values", items |-> values_of(iter.items)]

\* What format_html does to the sink: write! / writeln! of a text, of a text
\* with a number ({}), and a call of format_cell with the value of a cell.
Write(text) == [op |-> "write", text |-> text]
WriteNum(text, n) == [op |-> "write", text |-> text, n |-> n]
FormatCell(value) == [op |-> "format_cell", value |-> value]

\* A slip in the Occupied arm: rowspan is written before colspan.
CellOpsRowspanFirst(cell) ==
    CASE cell.kind = "Empty" -> <<Write("<td></td>")>>
      [] cell.kind = "Occupied" ->
            <<Write("<td")>>
            \o (IF cell.rowspan # 1 THEN <<WriteNum(" rowspan=", cell.rowspan)>> ELSE <<>>)
            \o (IF cell.colspan # 1 THEN <<WriteNum(" colspan=", cell.colspan)>> ELSE <<>>)
            \o <<Write(">"), FormatCell(cell.value), Write("</td>\n")>>
      [] cell.kind = "Shadowed" -> <<>>

\* match *cell { ... } in format_html
CellOps(cell) ==
    CASE cell.kind = "Empty" -> <<Write("<td></td>")>>
      [] cell.kind = "Occupied" ->
            <<Write("<td")>>
            \o (IF cell.colspan # 1 THEN <<WriteNum(" colspan=", cell.colspan)>> ELSE <<>>)
            \o (IF cell.rowspan # 1 THEN <<WriteNum(" rowspan=", cell.rowspan)>> ELSE <<>>)
            \o <<Write(">"), FormatCell(cell.value), Write("</td>\n")>>
      [] cell.kind = "Shadowed" -> <<>>

\* for cell in row { ... }
RECURSIVE RowOps(_)
RowOps(row) ==
    IF row = <<>> THEN <<>> ELSE CellOps(Head(row)) \o RowOps(Tail(row))

\* for row in self.cells.chunks_exact(num_cols) { ... }
RECURSIVE ChunkOps(_, _)
ChunkOps(cells, num_cols) ==
    IF Len(cells) < num_cols THEN <<>>
    ELSE <<Write("<tr>\n")>> \o RowOps(Take(cells, num_cols)) \o <<Write("</tr>\n")>>
         \o ChunkOps(Drop(cells, num_cols), num_cols)

\* The writes and format_cell calls of format_html, in order, when none of
\* them fails.
HtmlOps(t) ==
    IF t.num_cols = 0 \/ t.num_rows = 0 THEN <<>>
    ELSE <<Write("<table>\n"), Write("<tbody>\n")>>
         \o ChunkOps(t.cells, t.num_cols)
         \o <<Write("</tbody>\n"), Write("</table>\n")>>

\* A slip: the result of a write is dropped (let _ = ...), not tried.
RECURSIVE TryIgnoringErrors(_, _, _)
TryIgnoringErrors(todo, attempted, failAt) ==
    IF todo = <<>> THEN [kind |-> "FmtOk", attempted |-> attempted]
    ELSE TryIgnoringErrors(Tail(todo), Append(attempted, Head(todo)), failAt)

\* The ? after every write and format_cell: the failAt-th operation on the
\* sink fails (none when failAt = 0), its error is returned at once.
RECURSIVE Try(_, _, _)
Try(todo, attempted, failAt) ==
    IF todo = <<>> THEN [kind |-> "FmtOk", attempted |-> attempted]
    ELSE IF Len(attempted) + 1 = failAt
         THEN [kind |-> "FmtErr", err |-> failAt,
               attempted |-> Append(attempted, Head(todo))]
         ELSE Try(Tail(todo), Append(attempted, Head(todo)), failAt)

\* Table::format_html with a sink whose failAt-th operation fails.
format_html(t, failAt) ==
    IF t.num_cols * t.num_rows # Len(t.cells) THEN PanicAssert
    ELSE Try(HtmlOps(t), <<>>, failAt)

----------------------------------------------------------------------------
\* The grid of a table, seen by position.
InGrid(t, row, col) == row >= 0 /\ row < t.num_rows /\ col >= 0 /\ col < t.num_cols
CellAt(t, row, col) == t.cells[t.num_cols * row + col + 1]
Positions(t) == (0..(t.num_rows - 1)) \X (0..(t.num_cols - 1))
InRect(r, c, row, col, rowspan, colspan) ==
    r >= row /\ r < row + rowspan /\ c >= col /\ c < col + colspan

----------------------------------------------------------------------------
\* A program creates a table with Table::new() or Table::empty(rows, cols).
InitFor(R, C) ==
    /\ table \in {EmptyTable(rows, columns) : rows \in 0..R, columns \in 0..C}
    /\ pre = table
    /\ call = NoCall
    /\ result = NoResult
    /\ ops = 0
    /\ degenerate = FALSE
    /\ ledger = [accepted |-> {}, rejected |-> {}, returned |-> {}]

\* What the caller knows of a value after the call that passed it: the call
\* returned Ok (the value was accepted) or Err (rejected), and Ok(Some(old))
\* handed an older value back.
Record(l, value, res) ==
    [accepted |-> IF res.kind \in {"OkNone", "OkSome"}
                  THEN l.accepted \cup {value} ELSE l.accepted,
     rejected |-> IF res.kind = "Err" THEN l.rejected \cup {value} ELSE l.rejected,
     returned |-> IF res.kind = "OkSome" THEN l.returned \cup {res.value} ELSE l.returned]

\* A call of set_cell whose rectangle stays inside R x C; the value stored
\* is a fresh one, the number of the call.
SetCellFor(R, C, N) ==
    /\ ~table.fault
    /\ ops < N
    /\ \E row \in 0..(R - 1), col \in 0..(C - 1), rowspan \in 0..MaxSpan, colspan \in 0..MaxSpan :
         /\ row + rowspan <= R
         /\ col + colspan <= C
         /\ LET out == set_cell(table, ops + 1, row, col, rowspan, colspan) IN
            /\ table' = out.table
            /\ result' = out.result
            /\ call' = [op |-> "set_cell", value |-> ops + 1, row |-> row, col |-> col,
                        rowspan |-> rowspan, colspan |-> colspan]
            /\ degenerate' = (degenerate \/ rowspan = 0 \/ colspan = 0)
            /\ ledger' = Record(ledger, ops + 1, out.result)
    /\ pre' = table
    /\ ops' = ops + 1

\* A call of get_cell_value_mut, also at positions outside the grid.
GetCellValueMutFor(R, C) ==
    /\ ~table.fault
    /\ \E row \in 0..R, col \in 0..C :
         /\ result' = get_cell_value_mut(table, row, col)
         /\ call' = [op |-> "get_cell_value_mut", row |-> row, col |-> col]
    /\ pre' = table
    /\ UNCHANGED <<table, ops, degenerate, ledger>>

Init == InitFor(MaxRows, MaxCols)
SetCell == SetCellFor(MaxRows, MaxCols, MaxOps)
GetCellValueMut == GetCellValueMutFor(MaxRows, MaxCols)
Next == SetCell \/ GetCellValueMut
Spec == Init /\ [][Next]_vars

InitWide == InitFor(WideRows, WideCols)
SetCellWide == SetCellFor(WideRows, WideCols, WideOps)
NextWide == SetCellWide
SpecWide == InitWide /\ [][NextWide]_vars

\* The values a table of SpecView can hold, and the closures passed to map
\* and flat_map: the identity and a change of every value; a choice of the
\* values to keep, changed, and None for the others.
StoredValues == 1..ViewOps
MapClosures == {[v \in StoredValues |-> v], [v \in StoredValues |-> 0 - v]}
FlatMapClosures ==
    {[v \in StoredValues |-> IF v \in keep THEN SomeValue(0 - v) ELSE None] :
        keep \in SUBSET StoredValues}

\* table.clone().map(f)
Map ==
    /\ ~table.fault
    /\ \E f \in MapClosures :
         /\ result' = map(table, f)
         /\ call' = [op |-> "map", f |-> f]
    /\ pre' = table
    /\ UNCHANGED <<table, ops, degenerate, ledger>>

\* table.flat_map(f)
FlatMap ==
    /\ ~table.fault
    /\ \E f \in FlatMapClosures :
         /\ result' = flat_map(table, f)
         /\ call' = [op |-> "flat_map", f |-> f]
    /\ pre' = table
    /\ UNCHANGED <<table, ops, degenerate, ledger>>

\* table.values().collect()
Values ==
    /\ ~table.fault
    /\ result' = values(table)
    /\ call' = [op |-> "values"]
    /\ pre' = table
    /\ UNCHANGED <<table, ops, degenerate, ledger>>

\* table.format_html(w, format_cell) with a sink that fails at its failAt-th
\* operation, or never.
FormatHtml ==
    /\ ~table.fault
    /\ \E failAt \in 0..Len(HtmlOps(table)) :
         /\ result' = format_html(table, failAt)
         /\ call' = [op |-> "format_html", failAt |-> failAt]
    /\ pre' = table
    /\ UNCHANGED <<table, ops, degenerate, ledger>>

InitView == InitFor(MaxRows, MaxCols)
SetCellView == SetCellFor(MaxRows, MaxCols, ViewOps)
NextView == SetCellView \/ Map \/ FlatMap \/ Values \/ FormatHtml
SpecView == InitView /\ [][NextView]_vars

----------------------------------------------------------------------------
\* What the last step was.
IsSetCell == call.op = "set_cell"
IsGet == call.op = "get_cell_value_mut"
\* The last call was a set_cell with rowspan >= 1 and colspan >= 1.
NormalCall == IsSetCell /\ call.rowspan >= 1 /\ call.colspan >= 1
\* The last call returned (it did not unwind in a panic).
Returned == result.kind \in {"OkNone", "OkSome", "Err"}
\* The cell the table held at (row, col) before the last call, if any.
PreInGrid == InGrid(pre, call.row, call.col)
PreCell == CellAt(pre, call.row, call.col)
\* The rectangle the last set_cell call asked for.
InNewRect(r, c) == InRect(r, c, call.row, call.col, call.rowspan, call.colspan)
\* The Occupied cells of a table, by position.
Anchors(t) == {p \in Positions(t) : CellAt(t, p[1], p[2]).kind = "Occupied"}
\* The span rectangle of the Occupied cell at p covers q.
Covers(t, p, q) ==
    InRect(q[1], q[2], p[1], p[2], CellAt(t, p[1], p[2]).rowspan, CellAt(t, p[1], p[2]).colspan)
\* The Shadowed cell at p refers to an Occupied cell whose rectangle holds p.
ShadowConsistent(t, p) ==
    LET s == CellAt(t, p[1], p[2]) IN
    /\ InGrid(t, s.row, s.col)
    /\ CellAt(t, s.row, s.col).kind = "Occupied"
    /\ Covers(t, <<s.row, s.col>>, p)

\* C1: in every state reached by set_cell calls with rowspan >= 1 and
\* colspan >= 1, every Shadowed{col, row} cell refers to a position that
\* holds an Occupied cell whose span rectangle contains the shadow.
C1_AnchorShadowConsistency ==
    (~degenerate /\ ~table.fault) =>
        \A p \in Positions(table) :
            CellAt(table, p[1], p[2]).kind = "Shadowed" => ShadowConsistent(table, p)

\* C2: a set_cell call that returns Err leaves the table as it was: same
\* num_rows, same num_cols, every cell the same (stated here for sequences of
\* calls with rowspan >= 1 and colspan >= 1, where it already fails).
C2_ConflictIsNoOp ==
    (~degenerate /\ IsSetCell /\ result.kind = "Err") =>
        /\ table.num_rows = pre.num_rows
        /\ table.num_cols = pre.num_cols
        /\ table.cells = pre.cells

\* C3: overwriting an Occupied cell (rowspan >= 1, colspan >= 1) returns
\* Ok(Some(old)), leaves Occupied{value, colspan, rowspan} with the new value
\* at (row, col) and Shadowed{col, row} at every other position of the new
\* span rectangle.
C3_OverwritePlacement ==
    (~degenerate /\ NormalCall /\ PreInGrid /\ PreCell.kind = "Occupied") =>
        /\ result = OkSome(PreCell.value)
        /\ CellAt(table, call.row, call.col)
              = Occupied(call.value, call.colspan, call.rowspan)
        /\ \A p \in Positions(table) :
              (InNewRect(p[1], p[2]) /\ p # <<call.row, call.col>>)
                  => CellAt(table, p[1], p[2]) = Shadowed(call.col, call.row)

\* C4: the span rectangles of two distinct Occupied cells never share a
\* position (so no Occupied cell lies inside another's rectangle), and a
\* set_cell call whose new rectangle covers a position that was Occupied, or
\* Shadowed by a different anchor, returns Err.
C4_SingleOwnership ==
    (~degenerate /\ ~table.fault) =>
        /\ \A p \in Anchors(table), q \in Anchors(table) :
              p # q => ~\E x \in Positions(table) : Covers(table, p, x) /\ Covers(table, q, x)
        /\ (NormalCall /\ \E x \in Positions(pre) :
                /\ InNewRect(x[1], x[2])
                /\ x # <<call.row, call.col>>
                /\ \/ CellAt(pre, x[1], x[2]).kind = "Occupied"
                   \/ /\ CellAt(pre, x[1], x[2]).kind = "Shadowed"
                      /\ CellAt(pre, x[1], x[2]) # Shadowed(call.col, call.row))
           => result.kind = "Err"

\* C5: after every set_cell call, whatever its result, the length of the cell
\* storage is num_rows * num_cols, and no assert_eq of the growth code fails.
C5_ShapeInvariant ==
    /\ Len(table.cells) = table.num_rows * table.num_cols
    /\ result.kind # "PanicAssert"

\* A call has widened a table that had rows and added rows below them.
C5_Witness ==
    /\ IsSetCell /\ Returned
    /\ pre.num_rows >= 1 /\ pre.num_cols >= 1
    /\ table.num_cols > pre.num_cols /\ table.num_rows > pre.num_rows
    /\ Len(table.cells) = 4

\* C6: a set_cell call (rowspan >= 1, colspan >= 1) at a position that was
\* Empty or outside the grid returns Ok(None), leaves
\* Occupied{value, colspan, rowspan} at (row, col) and Shadowed{col, row} at
\* every other position of the rectangle.
C6_FreshPlacement ==
    (NormalCall /\ (~PreInGrid \/ PreCell.kind = "Empty")) =>
        /\ result = OkNone
        /\ InGrid(table, call.row + call.rowspan - 1, call.col + call.colspan - 1)
        /\ CellAt(table, call.row, call.col)
              = Occupied(call.value, call.colspan, call.rowspan)
        /\ \A p \in Positions(table) :
              (InNewRect(p[1], p[2]) /\ p # <<call.row, call.col>>)
                  => CellAt(table, p[1], p[2]) = Shadowed(call.col, call.row)

\* A 2x2 span has been placed on Empty cells of a table that held a value.
C6_Witness ==
    /\ NormalCall /\ ops >= 2
    /\ call.rowspan = 2 /\ call.colspan = 2
    /\ result = OkNone
    /\ CellAt(table, call.row + 1, call.col + 1) = Shadowed(call.col, call.row)

\* The result of a set_cell call is decided by the cell at (row, col): Err
\* with the coordinates stored in it if it was Shadowed, Ok otherwise.
ErrIffShadowed ==
    IF PreInGrid /\ PreCell.kind = "Shadowed"
    THEN result.kind = "Err" /\ result.col = PreCell.col /\ result.row = PreCell.row
    ELSE result.kind \in {"OkNone", "OkSome"}

\* C7 (as claimed): every set_cell call returns Err exactly when the cell at
\* (row, col) was Shadowed{col: c, row: r}, the error then being
\* Shadowed{col: c, row: r}; every other call returns Ok.
C7_ConflictDetectionAnyCall == IsSetCell => ErrIffShadowed

\* C7 (amended): the same, in a sequence of calls that all have rowspan >= 1
\* and colspan >= 1.
C7_ConflictDetection == (~degenerate /\ IsSetCell) => ErrIffShadowed

\* A call at a Shadowed position has returned Err, naming the
\* blocker.
C7_Witness ==
    /\ ~degenerate /\ IsSetCell /\ PreInGrid
    /\ PreCell.kind = "Shadowed" /\ result.kind = "Err"
    /\ <<result.row, result.col>> # <<call.row, call.col>>

\* C8: whenever set_cell(value, row, col, ...) returns Err(Shadowed{col: c,
\* row: r}), (r, c) is not (row, col) and held, before the call, an Occupied
\* cell whose span rectangle covers (row, col) (stated for sequences of calls
\* with rowspan >= 1 and colspan >= 1, where it already fails).
C8_ErrorNamesBlocker ==
    (~degenerate /\ IsSetCell /\ result.kind = "Err") =>
        /\ <<result.row, result.col>> # <<call.row, call.col>>
        /\ InGrid(pre, result.row, result.col)
        /\ CellAt(pre, result.row, result.col).kind = "Occupied"
        /\ Covers(pre, <<result.row, result.col>>, <<call.row, call.col>>)

\* The number of Empty cells of a table.
EmptyCount(t) == Cardinality({i \in 1..Len(t.cells) : t.cells[i] = Empty})

\* C9: num_rows and num_cols never decrease; after each set_cell call
\* num_rows = max(previous num_rows, row + rowspan) and num_cols =
\* max(previous num_cols, col + colspan); a placement inside the current
\* bounds leaves the size unchanged; a 1x1 value placed at (row 2, col 3) in
\* a 0x0 table gives a 3x4 table with 11 Empty cells.
C9_GrowthExactSize ==
    /\ table.num_rows >= pre.num_rows
    /\ table.num_cols >= pre.num_cols
    /\ IsSetCell =>
        /\ table.num_rows = Max(pre.num_rows, call.row + call.rowspan)
        /\ table.num_cols = Max(pre.num_cols, call.col + call.colspan)
        /\ (call.row + call.rowspan <= pre.num_rows /\ call.col + call.colspan <= pre.num_cols)
              => size(table) = size(pre)
        /\ (pre = New /\ call.row = 2 /\ call.col = 3 /\ call.rowspan = 1 /\ call.colspan = 1)
              => (size(table) = <<3, 4>> /\ EmptyCount(table) = 11)

\* The 1x1 value placed at (row 2, col 3) in a 0x0 table.
C9_Witness ==
    /\ IsSetCell /\ pre = New
    /\ call.row = 2 /\ call.col = 3 /\ call.rowspan = 1 /\ call.colspan = 1
    /\ size(table) = <<3, 4>> /\ EmptyCount(table) = 11
    /\ CellAt(table, 2, 3) = Occupied(call.value, 1, 1)

\* C10: get_cell_value_mut(row, col) returns the value of the cell at grid
\* position (row, col) if row < num_rows, col < num_cols and that cell is
\* Occupied, and None in every other case (stated for tables built by calls
\* with rowspan >= 1 and colspan >= 1, where it already fails).
C10_BoundsTolerantLookup ==
    (~degenerate /\ IsGet) =>
        result = IF InGrid(pre, call.row, call.col)
                    /\ CellAt(pre, call.row, call.col).kind = "Occupied"
                 THEN SomeValue(CellAt(pre, call.row, call.col).value)
                 ELSE None

----------------------------------------------------------------------------
\* More of what the last step was.
ZeroSpanCall == IsSetCell /\ (call.rowspan = 0 \/ call.colspan = 0)
OkResult == result.kind \in {"OkNone", "OkSome"}
\* The last call was a set_cell at a position that held an Occupied cell.
Overwrites == IsSetCell /\ PreInGrid /\ PreCell.kind = "Occupied"
\* The rectangle of the span that cell had.
InOldRect(r, c) ==
    InRect(r, c, call.row, call.col, PreCell.rowspan, PreCell.colspan)
DifferentShape == <<call.rowspan, call.colspan>> # <<PreCell.rowspan, PreCell.colspan>>
\* The span rectangle of the Occupied cell at p lies inside the grid.
RectInGrid(t, p) ==
    /\ p[1] + CellAt(t, p[1], p[2]).rowspan <= t.num_rows
    /\ p[2] + CellAt(t, p[1], p[2]).colspan <= t.num_cols

\* C11: in every sequence of set_cell calls with rowspan >= 1 and
\* colspan >= 1 no call reaches the 'out of bounds' panic of set / replace
\* (nor any other fault), and the span rectangle of every Occupied cell lies
\* inside [0, num_rows) x [0, num_cols).
C11_NoOutOfBounds ==
    ~degenerate =>
        /\ ~table.fault
        /\ result.kind # "PanicOutOfBounds"
        /\ \A p \in Anchors(table) : RectInGrid(table, p)

\* An anchor whose old span reached the last row is overwritten by a span of
\* another shape: the clearing loops ran up to the edge of the grid.
C11_Witness ==
    /\ ~degenerate
    /\ Overwrites
    /\ PreCell.rowspan = 2 /\ PreCell.colspan = 1
    /\ call.rowspan = 1 /\ call.colspan = 2
    /\ call.row + 2 = table.num_rows
    /\ result.kind = "OkSome"

\* Every position of the old span rectangle outside the new one is Empty.
OldSpanCleared ==
    \A p \in Positions(table) :
        (InOldRect(p[1], p[2]) /\ ~InNewRect(p[1], p[2]))
            => CellAt(table, p[1], p[2]) = Empty

\* C16 as stated: whenever set_cell overwrites an Occupied anchor with a span
\* of a different shape, every position of the old span rectangle outside
\* the new span rectangle is Empty after the call.
C16_OldSpanClearedAnyCall ==
    (Overwrites /\ DifferentShape /\ Returned) => OldSpanCleared

\* C16: the same for an overwriting call with rowspan >= 1 and colspan >= 1.
C16_OldSpanCleared ==
    (NormalCall /\ Overwrites /\ DifferentShape /\ Returned) => OldSpanCleared

\* A 2x2 span is replaced by a 1x1 value: the three former shadow positions
\* are Empty.
C16_Witness ==
    /\ NormalCall
    /\ Overwrites
    /\ PreCell.rowspan = 2 /\ PreCell.colspan = 2
    /\ call.rowspan = 1 /\ call.colspan = 1
    /\ result.kind = "OkSome"
    /\ CellAt(table, call.row + 1, call.col) = Empty
    /\ CellAt(table, call.row, call.col + 1) = Empty
    /\ CellAt(table, call.row + 1, call.col + 1) = Empty

\* The cells a call may not touch are as they were, and growth adds Empty
\* cells only.
Frame ==
    /\ \A p \in Positions(pre) :
          (/\ ~InNewRect(p[1], p[2])
           /\ ~(PreInGrid /\ PreCell.kind = "Occupied" /\ InOldRect(p[1], p[2])))
          => (/\ InGrid(table, p[1], p[2])
              /\ CellAt(table, p[1], p[2]) = CellAt(pre, p[1], p[2]))
    /\ \A p \in Positions(table) \ Positions(pre) :
          ~InNewRect(p[1], p[2]) => CellAt(table, p[1], p[2]) = Empty

\* C17 as stated: every set_cell call that returns Ok leaves the cells
\* outside the new and the old span rectangle as they were, at the same
\* coordinates, and the cells growth creates outside the new rectangle are
\* Empty.
C17_FrameAnyCall == (IsSetCell /\ OkResult) => Frame

\* C17: the same in sequences of calls with rowspan >= 1 and colspan >= 1.
C17_Frame == (~degenerate /\ IsSetCell /\ OkResult) => Frame

\* A call widens a grid that holds an anchor outside the new rectangle: the
\* storage was rebuilt and the anchor is where it was.
C17_Witness ==
    /\ ~degenerate /\ IsSetCell /\ OkResult
    /\ pre.num_cols >= 1 /\ pre.num_rows = 2
    /\ table.num_cols > pre.num_cols
    /\ \E p \in Anchors(pre) :
          /\ p[1] = 1
          /\ ~InNewRect(p[1], p[2])
          /\ CellAt(table, p[1], p[2]) = CellAt(pre, p[1], p[2])

\* Some Occupied cell of the table stores the value.
Stored(t, v) ==
    \E i \in 1..Len(t.cells) : t.cells[i].kind = "Occupied" /\ t.cells[i].value = v

\* C18: in sequences of set_cell calls with rowspan >= 1 and colspan >= 1,
\* a value passed to a call that returned Ok is stored in an Occupied cell
\* or was handed back as Ok(Some(value)) by a later call, and a value passed
\* to a call that returned Err is not stored.
C18_NoValueLost ==
    (~degenerate /\ ~table.fault) =>
        /\ \A v \in ledger.accepted : Stored(table, v) \/ v \in ledger.returned
        /\ \A v \in ledger.rejected : ~Stored(table, v)

\* The Shadowed cells of the table were there, the same, before the call.
NoNewShadow ==
    \A p \in Positions(table) :
        CellAt(table, p[1], p[2]).kind = "Shadowed"
            => (/\ InGrid(pre, p[1], p[2])
                /\ CellAt(pre, p[1], p[2]) = CellAt(table, p[1], p[2]))

\* No cell but the one at (row, col) was written.
OnlyAnchorWritten ==
    /\ \A p \in Positions(pre) :
          p # <<call.row, call.col>>
            => (/\ InGrid(table, p[1], p[2])
                /\ CellAt(table, p[1], p[2]) = CellAt(pre, p[1], p[2]))
    /\ \A p \in Positions(table) \ Positions(pre) :
          p # <<call.row, call.col>> => CellAt(table, p[1], p[2]) = Empty

Contained ==
    /\ NoNewShadow
    /\ result.kind # "PanicOutOfBounds"
    /\ Len(table.cells) = table.num_rows * table.num_cols
    /\ OnlyAnchorWritten

OldSpanWithinAnchor ==
    Overwrites => (PreCell.rowspan <= 1 /\ PreCell.colspan <= 1)

----------------------------------------------------------------------------
\* The last step was a call of map, flat_map, values or format_html.
IsMap == call.op = "map"
IsFlatMap == call.op = "flat_map"
IsValues == call.op = "values"
IsFormat == call.op = "format_html"
SameShape(a, b) ==
    /\ a.num_cols = b.num_cols
    /\ a.num_rows = b.num_rows
    /\ Len(a.cells) = Len(b.cells)

\* C12: map(f) returns a table of the same num_rows and num_cols in which
\* every position has the variant it had, Occupied cells keep colspan and
\* rowspan and hold f(value), Shadowed cells keep their (col, row); with the
\* identity for f the cells are the same.
C12_MapRoundTrip ==
    IsMap =>
        /\ result.kind = "Table"
        /\ SameShape(result.table, pre)
        /\ \A p \in Positions(pre) :
              LET a == CellAt(pre, p[1], p[2])
                  b == CellAt(result.table, p[1], p[2])
              IN /\ b.kind = a.kind
                 /\ a.kind = "Occupied" =>
                        /\ b.colspan = a.colspan
                        /\ b.rowspan = a.rowspan
                        /\ b.value = call.f[a.value]
                 /\ a.kind = "Shadowed" => (b.col = a.col /\ b.row = a.row)
        /\ (\A v \in DOMAIN call.f : call.f[v] = v) => result.table.cells = pre.cells

\* map with a closure that changes the values, on a table with an anchor of
\* two rows and one column and its shadow.
C12_Witness ==
    /\ IsMap
    /\ \E v \in DOMAIN call.f : call.f[v] # v
    /\ \E p \in Anchors(pre) :
          /\ CellAt(pre, p[1], p[2]).rowspan = 2
          /\ CellAt(pre, p[1], p[2]).colspan = 1
          /\ CellAt(pre, p[1] + 1, p[2]) = [kind |-> "Shadowed", col |-> p[2], row |-> p[1]]
          /\ CellAt(result.table, p[1], p[2]).value # CellAt(pre, p[1], p[2]).value

\* The Shadowed cell a refers to an anchor that f dropped and that had
\* rowspan # 1 and colspan # 1.
AnchorDropped(a) ==
    /\ InGrid(pre, a.row, a.col)
    /\ CellAt(pre, a.row, a.col).kind = "Occupied"
    /\ call.f[CellAt(pre, a.row, a.col).value].kind = "None"
    /\ CellAt(pre, a.row, a.col).rowspan # 1
    /\ CellAt(pre, a.row, a.col).colspan # 1

\* C13: on every table reached by set_cell calls, Table::new() and tables
\* with zero rows or columns included, flat_map(f) completes without fault
\* and returns a table of the same shape in which an Occupied cell is
\* Occupied with f's value and the same span, or Empty when f yields None; a
\* Shadowed cell is Empty exactly when its anchor was dropped with
\* rowspan # 1 and colspan # 1 and is unchanged otherwise; Empty stays Empty.
C13_FlatMapResult ==
    IsFlatMap =>
        /\ result.kind = "Table"
        /\ SameShape(result.table, pre)
        /\ \A p \in Positions(pre) :
              LET a == CellAt(pre, p[1], p[2])
                  b == CellAt(result.table, p[1], p[2])
              IN /\ a.kind = "Empty" => b.kind = "Empty"
                 /\ a.kind = "Occupied" =>
                        IF call.f[a.value].kind = "Some"
                        THEN /\ b.kind = "Occupied"
                             /\ b.value = call.f[a.value].value
                             /\ b.colspan = a.colspan
                             /\ b.rowspan = a.rowspan
                        ELSE b.kind = "Empty"
                 /\ a.kind = "Shadowed" =>
                        IF AnchorDropped(a) THEN b.kind = "Empty" ELSE b = a

\* C14: on every table, Table::new() and tables with zero rows or columns
\* included, values() yields without fault one CellValue per Occupied cell,
\* none for other cells, in row-major order, each with the cell's own row,
\* col, rowspan and colspan.
C14_ValuesTraversal ==
    IsValues =>
        /\ result.kind = "Values"
        /\ Len(result.items) = Cardinality(Anchors(pre))
        /\ \A i \in 1..Len(result.items) :
              LET v == result.items[i] IN
              /\ InGrid(pre, v.row, v.col)
              /\ CellAt(pre, v.row, v.col) =
                    [kind |-> "Occupied", value |-> v.value,
                     colspan |-> v.colspan, rowspan |-> v.rowspan]
        /\ \A i, j \in 1..Len(result.items) :
              i < j => \/ result.items[i].row < result.items[j].row
                       \/ /\ result.items[i].row = result.items[j].row
                          /\ result.items[i].col < result.items[j].col

\* The indices of the elements of a sequence that pass a test, ascending.
IndicesOf(w, Test(_)) ==
    SelectSeq([i \in 1..Len(w) |-> i], LAMBDA i : Test(w[i]))

\* What reached the sink: the operations attempted, less the one that failed.
SinkOps ==
    IF result.kind = "FmtErr"
    THEN SubSeq(result.attempted, 1, Len(result.attempted) - 1)
    ELSE result.attempted

\* The structure of a rendering w of the table t.
RenderStructure(t, w) ==
    IF t.num_rows = 0 \/ t.num_cols = 0 THEN w = <<>>
    ELSE
    LET IsTr(o) == o = [op |-> "write", text |-> "<tr>\n"]
        IsTrEnd(o) == o = [op |-> "write", text |-> "</tr>\n"]
        IsTdEmpty(o) == o = [op |-> "write", text |-> "<td></td>"]
        IsTd(o) == o = [op |-> "write", text |-> "<td"]
        IsOpener(o) == IsTdEmpty(o) \/ IsTd(o)
        IsFormatCell(o) == o.op = "format_cell"
        IsOccupied(c) == c.kind = "Occupied"
        NotShadowed(c) == c.kind # "Shadowed"
        trs == IndicesOf(w, IsTr)
        ends == IndicesOf(w, IsTrEnd)
        tds == IndicesOf(w, IsTd)
        fmts == SelectSeq(w, IsFormatCell)
        occ == SelectSeq(t.cells, IsOccupied)
    IN
    /\ Len(trs) = t.num_rows
    /\ Len(ends) = t.num_rows
    /\ \A k \in 1..t.num_rows :
          /\ trs[k] < ends[k]
          /\ k < t.num_rows => ends[k] < trs[k + 1]
          /\ LET openers == SelectSeq(SubSeq(w, trs[k] + 1, ends[k] - 1), IsOpener)
                 rowcells == SelectSeq([c \in 1..t.num_cols |-> CellAt(t, k - 1, c - 1)],
                                       NotShadowed)
             IN /\ Len(openers) = Len(rowcells)
                /\ \A j \in 1..Len(rowcells) :
                      IF rowcells[j].kind = "Empty"
                      THEN IsTdEmpty(openers[j])
                      ELSE IsTd(openers[j])
    /\ Len(tds) = Len(occ)
    /\ Len(fmts) = Len(occ)
    /\ \A j \in 1..Len(occ) :
          LET c == occ[j]
              nc == IF c.colspan # 1 THEN 1 ELSE 0
              nr == IF c.rowspan # 1 THEN 1 ELSE 0
              i == tds[j]
          IN /\ fmts[j].value = c.value
             /\ i + nc + nr + 3 <= Len(w)
             /\ c.colspan # 1 =>
                    w[i + 1] = [op |-> "write", text |-> " colspan=", n |-> c.colspan]
             /\ c.rowspan # 1 =>
                    w[i + nc + 1] = [op |-> "write", text |-> " rowspan=", n |-> c.rowspan]
             /\ w[i + nc + nr + 1] = [op |-> "write", text |-> ">"]
             /\ w[i + nc + nr + 2] = [op |-> "format_cell", value |-> c.value]
             /\ w[i + nc + nr + 3] = [op |-> "write", text |-> "</td>\n"]

AbortsAtFailure ==
    /\ result.kind = "FmtErr"
    /\ result.err = call.failAt
    /\ Len(result.attempted) = call.failAt

\* The last two writes are the closing tags.
ClosingTagsWritten ==
    LET w == result.attempted IN
    /\ Len(w) >= 2
    /\ w[Len(w) - 1] = [op |-> "write", text |-> "</tbody>\n"]
    /\ w[Len(w)] = [op |-> "write", text |-> "</table>\n"]

\* C20 as stated: if a write or a format_cell call fails, format_html
\* returns that error and does nothing more on the sink; if none fails it
\* returns Ok after writing the closing </tbody> and </table>.
C20_AbortOnFailureAnyTable ==
    IsFormat =>
        IF call.failAt >= 1
        THEN AbortsAtFailure
        ELSE result.kind = "FmtOk" /\ ClosingTagsWritten

\* C20: the same, the closing tags being written when the table has at
\* least one row and one column (nothing is written otherwise).
C20_AbortOnFailure ==
    IsFormat =>
        IF call.failAt >= 1
        THEN AbortsAtFailure
        ELSE /\ result.kind = "FmtOk"
             /\ IF pre.num_rows >= 1 /\ pre.num_cols >= 1
                THEN ClosingTagsWritten
                ELSE result.attempted = <<>>

\* A format_cell call failed in the middle of a rendering.
C20_Witness ==
    /\ IsFormat
    /\ call.failAt >= 1
    /\ result.kind = "FmtErr"
    /\ result.attempted[call.failAt].op = "format_cell"
    /\ Cardinality(Anchors(pre)) = 2

====
